---- MODULE Spec2Model ----
(***************************************************************************)
(* ENOQ-CORE: the core orchestrator enoqCore() of                          *)
(* core/pipeline/orchestrator.ts as a state machine.                       *)
(*                                                                         *)
(* One invocation of enoqCore() is a "run".  JavaScript runs the code      *)
(* between two awaits atomically, and enoqCore() has a single await (the   *)
(* runtime delegation, line 198), so a run takes two steps: Start (lines   *)
(* 121-198, up to the call of the runtime) and then either                 *)
(* RuntimeResolves (lines 198-280) or RuntimeRejects (the awaited promise  *)
(* rejects; enoqCore has no try/catch).  Several runs interleave at the    *)
(* await.                                                                  *)
(***************************************************************************)
EXTENDS Integers, Sequences, FiniteSets, TLC

VARIABLES run, metrics, lastCheck, pinned, fold, now, idempotencyCache, requests, auditEnabled, audit, sessions, events, cacheNow, resultCache, lastUsed, lastCacheOp, gate, storage, database, storageNow, lastStorageOp

\* the orchestrator's part of the state: the runs and the process-wide observer
orchestratorVars == <<run, metrics>>

\* the compliance engine's part: the latest call and an earlier call kept
verifyVars == <<lastCheck, pinned>>

\* the webhook handler's part: the clock, the cache and the requests
webhookVars == <<now, idempotencyCache, requests>>

\* the audit helper's part: the switch, the calls and what the storage holds
auditVars == <<auditEnabled, audit, sessions, events>>

\* the result cache's part: its clock, its entries and the record of their use
cacheVars == <<cacheNow, resultCache, lastUsed, lastCacheOp>>

\* the admission gate's part: the latest decision
gateVars == <<gate>>

\* the audit storage's part: the object, the database file, the clock, the latest call
storageVars == <<storage, database, storageNow, lastStorageOp>>

vars == <<run, metrics, lastCheck, pinned, fold, now, idempotencyCache, requests, auditEnabled, audit, sessions, events, cacheNow, resultCache, lastUsed, lastCacheOp, gate, storage, database, storageNow, lastStorageOp>>

(***************************************************************************)
(* Bounds and input domains                                                *)
(***************************************************************************)

\* the concurrent invocations of enoqCore() that are modelled
RunIds == {"r1", "r2"}

\* the longest violation list a verification decision carries
MaxViolations == 1

\* calls of checkCompliance followed in one behaviour
MaxChecks == 3

\* longest list of violations handed to determineAction
MaxFold == 4

\* webhook requests followed in one behaviour
MaxRequests == 2

\* the clock advances in steps of TickMs up to MaxNow (milliseconds)
TickMs == 150000

MaxNow == 450000

\* const CACHE_TTL_MS = 5 * 60 * 1000
CACHE_TTL_MS == 300000

\* the cache size above which setCachedResponse sweeps expired entries: 1000 in
\* the source, scaled down here so that a few requests cross it
HighWaterMark == 0

\* capacity N of the result cache
Capacity == 2

\* time-to-live of a result cache entry, in units of its clock
CacheTtl == 3

\* the result cache's clock stops here
MaxCacheNow == 6

MaxEvents == 1

MaxStorageNow == 2

\* the threshold of the score gate, 0.85, in hundredths
Tau == 85

\* an optional value (TypeScript `T | undefined`): <<>> or <<v>>
Undefined == <<>>

Some(v) == <<v>>

IsDefined(o) == o # Undefined

Get(o) == o[1]

Last(s) == s[Len(s)]

\* message: string
Messages == {"", "hello"}

\* the values a CoreConfig flag can take (the fields are optional booleans)
FlagValues == {"undefined", "true", "false"}

CoreConfig == [signals_enabled : FlagValues,
               boundary_enabled : FlagValues,
               verification_enabled : FlagValues]

\* `config.x !== false`
NotFalse(flag) == flag # "false"

\* PipelineState
PipelineState == {"PERMIT", "SENSE", "CLARIFY", "PLAN", "ACT", "VERIFY", "STOP"}

\* the order of the states in the pipeline PERMIT -> ... -> STOP
StateOrder == <<"PERMIT", "SENSE", "CLARIFY", "PLAN", "ACT", "VERIFY", "STOP">>

Rank(s) == CHOOSE i \in 1..Len(StateOrder) : StateOrder[i] = s

\* what permit() returns: the orchestrator reads .permitted of it
BoundaryDecisions == [permitted : BOOLEAN]

\* result.output of the runtime
Outputs == {"", "text"}

\* result.trace.s1_field.language
FieldLanguages == {"it", "mixed"}

\* result.trace of the runtime: optional, with optional s1_field, s3_selection
Traces == [s1_field : {Undefined} \cup {Some([language |-> l]) : l \in FieldLanguages},
           s3_selection : {Undefined, Some("selection")}]

\* what runtimeEnoq() resolves to
PipelineResults == [output : Outputs, trace : {Undefined} \cup {Some(t) : t \in Traces}]

\* what the generation stage raises
GenerationErrors == {"Unavailable", "RateLimited", "Timeout"}

\* what verifyOutput() returns: passed, result.violations, result.fallback_required
VerificationDecisions ==
  { d \in [passed : BOOLEAN, violations : 0..MaxViolations, fallback_required : BOOLEAN] :
      d.passed => (d.violations = 0 /\ ~d.fallback_required) }

(***************************************************************************)
(* enoqCore(), section by section, on the locals of one invocation         *)
(***************************************************************************)

\* the locals of an invocation that has not been made yet
Idle ==
  [pc |-> "idle", message |-> "", signalsEnabled |-> TRUE, boundaryEnabled |-> TRUE,
   verificationEnabled |-> TRUE, phase |-> "START", statesTraversed |-> <<>>,
   history |-> <<>>, transitions |-> <<>>, calls |-> <<>>,
   boundaryDecision |-> Undefined, blocked |-> FALSE,
   verificationDecision |-> Undefined, verifyInput |-> Undefined,
   verifyFailed |-> Undefined, pipelineEnd |-> Undefined,
   result |-> Undefined, error |-> Undefined]

\* lines 121-140: the locals at entry
Enter(message, config) ==
  [Idle EXCEPT !.pc = "running",
               !.message = message,
               !.signalsEnabled = NotFalse(config.signals_enabled),
               !.boundaryEnabled = NotFalse(config.boundary_enabled),
               !.verificationEnabled = NotFalse(config.verification_enabled)]

\* emitStateTransition(from, to, ...) ; statesTraversed.push(to)
Traverse(f, to) ==
  [f EXCEPT !.transitions = Append(@, <<IF f.statesTraversed = <<>> THEN "START"
                                        ELSE Last(f.statesTraversed), to>>),
            !.statesTraversed = Append(@, to)]

\* a slip in createSignalEmitter: `history` is one array of the module, shared by
\* all invocations, so a run appends to what the other runs have emitted
Emit_SharedHistory(f, state) ==
  LET others == {run[q].history : q \in RunIds}
      shared == CHOOSE h \in others \cup {f.history} :
                  \A g \in others \cup {f.history} : Len(g) <= Len(h)
  IN  [f EXCEPT !.history = Append(shared, state)]

\* emitter.emit({state, ...})
Emit(f, state) == [f EXCEPT !.history = Append(@, state)]

\* lines 145-164: permit() and BOUNDARY_BLOCKED
Permit(f, decision) ==
  IF f.boundaryEnabled
  THEN [f EXCEPT !.phase = "PERMIT",
                 !.calls = Append(@, "permit"),
                 !.boundaryDecision = Some(decision),
                 !.blocked = ~decision.permitted]
  ELSE [f EXCEPT !.phase = "PERMIT"]

\* lines 166-179: the PERMIT signal
SignalPermit(f) ==
  IF f.signalsEnabled THEN Emit(Traverse(f, "PERMIT"), "PERMIT") ELSE f

\* lines 184-190: the SENSE signal
SignalSense(f) ==
  LET g == [f EXCEPT !.phase = "SENSE"]
  IN  IF g.signalsEnabled THEN Emit(Traverse(g, "SENSE"), "SENSE") ELSE g

\* line 198: runtimeEnoq(message, session, runtimeConfig) is called and awaited
CallRuntime(f) ==
  [f EXCEPT !.calls = Append(@, "runtimeEnoq"), !.pc = "awaiting"]

\* lines 121-198
StartRun(message, config, decision) ==
  CallRuntime(SignalSense(SignalPermit(Permit(Enter(message, config), decision))))

\* lines 201-206: ACT is tracked (pushed to statesTraversed, not emitted as a signal)
TrackAct(f) ==
  LET g == [f EXCEPT !.phase = "ACT"]
  IN  IF g.signalsEnabled THEN Traverse(g, "ACT") ELSE g

\* line 213: verification runs only if enabled and the trace has selection and field
VerifyRuns(f, result) ==
  /\ f.verificationEnabled
  /\ IsDefined(result.trace)
  /\ IsDefined(Get(result.trace).s3_selection)
  /\ IsDefined(Get(result.trace).s1_field)

\* lines 223-224: the language handed to the verifier
DetectedLang(fieldLang) ==
  IF fieldLang = "mixed" \/ fieldLang = "unknown" \/ fieldLang = "" THEN "en" ELSE fieldLang

\* line 248: the action reported with VERIFY_FAILED
FailedAction(decision) == IF decision.fallback_required THEN "FALLBACK" ELSE "STOP"

\* lines 240-252: VERIFY_FAILED is emitted if not passed and there are violations
VerifyFailedEvent(decision) ==
  IF ~decision.passed /\ decision.violations > 0
  THEN Some(FailedAction(decision))
  ELSE Undefined

\* lines 211-253: the VERIFY section; `decision` is what verifyOutput() returns
Verify(f, result, decision) ==
  IF VerifyRuns(f, result)
  THEN LET g == [f EXCEPT !.phase = "VERIFY"]
           h == IF g.signalsEnabled THEN Emit(Traverse(g, "VERIFY"), "VERIFY") ELSE g
       IN  [h EXCEPT !.calls = Append(@, "verifyOutput"),
                     !.verifyInput =
                        Some([text |-> result.output,
                              language |-> DetectedLang(Get(Get(result.trace).s1_field).language)]),
                     !.verificationDecision = Some(decision),
                     !.verifyFailed = VerifyFailedEvent(decision)]
  ELSE f

\* lines 258-263: the STOP section
Stop(f) ==
  LET g == [f EXCEPT !.phase = "STOP"]
  IN  IF g.signalsEnabled THEN Emit(Traverse(g, "STOP"), "STOP") ELSE g

\* a slip in line 266: a run without a verification decision counts as failed
Success_NeedsDecision(verificationDecision) ==
  IsDefined(verificationDecision) /\ Get(verificationDecision).passed

\* line 266
Success(verificationDecision) ==
  ~IsDefined(verificationDecision) \/ Get(verificationDecision).passed

\* lines 266-280: PIPELINE_END and the CoreResult returned
Return(f, result) ==
  [f EXCEPT !.pc = "returned",
            !.pipelineEnd = Some([success |-> Success(f.verificationDecision),
                                  states_traversed |-> f.statesTraversed]),
            !.result = Some([output |-> result.output,
                             trace |-> result.trace,
                             signals |-> f.history,
                             boundary |-> f.boundaryDecision,
                             verification |-> f.verificationDecision])]

\* a slip in the continuation: a decision that did not pass calls the runtime again
Resume_RetryOnFailedVerify(f, result, decision) ==
  LET g == Verify(TrackAct(f), result, decision)
  IN  IF IsDefined(g.verificationDecision) /\ ~Get(g.verificationDecision).passed
      THEN CallRuntime(g)
      ELSE Return(Stop(g), result)

\* lines 198-280: the continuation of the await when the runtime resolves
Resume(f, result, decision) ==
  Return(Stop(Verify(TrackAct(f), result, decision)), result)

\* line 198: the awaited promise rejects and nothing catches it: enoqCore rejects
Reject(f, err) == [f EXCEPT !.pc = "rejected", !.error = Some(err)]

\* the metrics of the process-wide observer (getObserver().getMetrics()) that
\* enoqCore's emit* calls feed; every run of the process updates the same observer
NoMetrics ==
  [boundary_blocks |-> 0, verify_failures |-> 0,
   total_pipelines |-> 0, successful_pipelines |-> 0]

\* lines 155-163: emitBoundaryBlocked counts a boundary block
ObserveStart(m, f) ==
  [m EXCEPT !.boundary_blocks = @ + (IF f.blocked THEN 1 ELSE 0)]

\* lines 241-252 and 267-273: emitVerifyFailed and emitPipelineEnd
ObserveReturn(m, f) ==
  [m EXCEPT !.verify_failures = @ + (IF IsDefined(f.verifyFailed) THEN 1 ELSE 0),
            !.total_pipelines = @ + (IF IsDefined(f.pipelineEnd) THEN 1 ELSE 0),
            !.successful_pipelines =
               @ + (IF IsDefined(f.pipelineEnd) /\ Get(f.pipelineEnd).success THEN 1 ELSE 0)]

InitOrchestrator ==
  /\ run = [r \in RunIds |-> Idle]
  /\ metrics = NoMetrics

Start(r) ==
  /\ run[r].pc = "idle"
  /\ \E message \in Messages, config \in CoreConfig, decision \in BoundaryDecisions :
       LET f == StartRun(message, config, decision)
       IN  /\ run' = [run EXCEPT ![r] = f]
           /\ metrics' = ObserveStart(metrics, f)

RuntimeResolves(r) ==
  /\ run[r].pc = "awaiting"
  /\ \E result \in PipelineResults, decision \in VerificationDecisions :
       LET f == Resume(run[r], result, decision)
       IN  /\ run' = [run EXCEPT ![r] = f]
           /\ metrics' = ObserveReturn(metrics, f)

RuntimeRejects(r) ==
  /\ run[r].pc = "awaiting"
  /\ \E err \in GenerationErrors :
       run' = [run EXCEPT ![r] = Reject(run[r], err)]
  /\ UNCHANGED metrics

NextOrchestrator == \E r \in RunIds : Start(r) \/ RuntimeResolves(r) \/ RuntimeRejects(r)

(***************************************************************************)
(* The content compliance engine (checkCompliance).  A text is taken as    *)
(* the set of the phrases it contains, a pattern as the phrase it matches; *)
(* the table below is COMPLIANCE_PATTERNS restricted to these phrases.     *)
(***************************************************************************)
Phrases == {"you should", "dovresti", "the best option", "if I were you"}

Texts == SUBSET Phrases

\* 'ja' stands for the languages without patterns of their own
Languages == {"en", "it", "ja"}

Severities == {"warning", "block", "stop"}

COMPLIANCE_PATTERNS ==
  << [id |-> "NORM-001", category |-> "NORMATIVE", severity |-> "stop",
      invariant |-> "INV-003",
      patterns |-> [en |-> <<"you should">>, it |-> <<"dovresti">>,
                    es |-> <<>>, fr |-> <<>>, de |-> <<>>]],
     [id |-> "RANK-001", category |-> "RANKING", severity |-> "stop",
      invariant |-> "INV-003",
      patterns |-> [en |-> <<"the best option">>, it |-> <<>>,
                    es |-> <<>>, fr |-> <<>>, de |-> <<>>]],
     [id |-> "PERSUADE-001", category |-> "PERSUASION", severity |-> "block",
      invariant |-> "INV-002",
      patterns |-> [en |-> <<"if I were you">>, it |-> <<>>,
                    es |-> <<>>, fr |-> <<>>, de |-> <<>>]] >>

\* patternDef.patterns[key] || []
PatternsOf(patternDef, key) ==
  IF key \in DOMAIN patternDef.patterns THEN patternDef.patterns[key] ELSE <<>>

\* a pattern compiled with the g flag and run with exec keeps its lastIndex: after
\* a call in which it matched, its next search starts past the match and fails
Match_KeepsLastIndex(pattern, output) ==
  IF /\ IsDefined(lastCheck)
     /\ \E i \in DOMAIN Get(lastCheck).result.violations :
          Get(lastCheck).result.violations[i].matched_text = pattern
  THEN Undefined
  ELSE IF pattern \in output THEN Some(pattern) ELSE Undefined

\* output.match(pattern): the matched text, or null
Match(pattern, output) == IF pattern \in output THEN Some(pattern) ELSE Undefined

mapLanguageToKey(lang) == IF lang \in {"en", "it", "es", "fr", "de"} THEN lang ELSE "en"

\* a selection without the English fallback
PatternsToCheck_NoFallback(patternDef, langKey) ==
  PatternsOf(patternDef, langKey) \o PatternsOf(patternDef, "universal")

PatternsToCheck(patternDef, langKey) ==
  PatternsOf(patternDef, langKey) \o PatternsOf(patternDef, "universal")
    \o (IF langKey # "en" THEN PatternsOf(patternDef, "en") ELSE <<>>)

\* the inner loop: the first pattern of the list that matches, then break
FirstMatch(patternsToCheck, output) ==
  LET hits == {i \in 1..Len(patternsToCheck) :
                 IsDefined(Match(patternsToCheck[i], output))}
  IN  IF hits = {} THEN Undefined
      ELSE Match(patternsToCheck[CHOOSE i \in hits : \A j \in hits : i <= j], output)

MatchesIn(output, pattern) == pattern \in output

\* the loop without its break: every matching pattern of a definition is recorded
RECURSIVE Violations_EveryMatch(_, _, _)
Violations_EveryMatch(patternDefs, output, langKey) ==
  IF patternDefs = <<>> THEN <<>>
  ELSE LET patternDef == Head(patternDefs)
           all == PatternsToCheck(patternDef, langKey)
           hits == {i \in 1..Len(all) : MatchesIn(output, all[i])}
           RECURSIVE Record(_)
           Record(i) ==
             IF i > Len(all) THEN <<>>
             ELSE (IF i \in hits
                   THEN << [category |-> patternDef.category,
                            pattern_id |-> patternDef.id,
                            matched_text |-> all[i],
                            severity |-> patternDef.severity,
                            invariant |-> patternDef.invariant] >>
                   ELSE <<>>) \o Record(i + 1)
       IN  Record(1) \o Violations_EveryMatch(Tail(patternDefs), output, langKey)

\* the outer loop: at most one violation per pattern definition, in table order
RECURSIVE Violations(_, _, _)
Violations(patternDefs, output, langKey) ==
  IF patternDefs = <<>> THEN <<>>
  ELSE LET patternDef == Head(patternDefs)
           match == FirstMatch(PatternsToCheck(patternDef, langKey), output)
           rest == Violations(Tail(patternDefs), output, langKey)
       IN  IF IsDefined(match)
           THEN << [category |-> patternDef.category,
                    pattern_id |-> patternDef.id,
                    matched_text |-> Get(match),
                    severity |-> patternDef.severity,
                    invariant |-> patternDef.invariant] >> \o rest
           ELSE rest

HasSeverity(violations, s) == \E i \in DOMAIN violations : violations[i].severity = s

\* a slip: the block test placed before the stop test
determineAction_BlockFirst(violations) ==
  IF Len(violations) = 0 THEN "DELIVER"
  ELSE IF HasSeverity(violations, "block") THEN "FALLBACK"
  ELSE IF HasSeverity(violations, "stop") THEN "STOP"
  ELSE "FALLBACK"

\* a fold that stops at the first violation: its severity alone decides
determineAction_FirstDecides(violations) ==
  IF Len(violations) = 0 THEN "DELIVER"
  ELSE IF violations[1].severity = "stop" THEN "STOP"
  ELSE "FALLBACK"

determineAction(violations) ==
  IF Len(violations) = 0 THEN "DELIVER"
  ELSE IF HasSeverity(violations, "stop") THEN "STOP"
  ELSE IF HasSeverity(violations, "block") THEN "FALLBACK"
  ELSE "FALLBACK"

\* a verdict that passes a text with block-severity violations only
checkCompliance_PassOnBlock(output, language) ==
  LET violations == Violations(COMPLIANCE_PATTERNS, output, mapLanguageToKey(language))
  IN  [passed |-> ~HasSeverity(violations, "stop"),
       violations |-> violations,
       action |-> determineAction(violations),
       fallback_reason |->
         IF Len(violations) > 0
         THEN Some(<<violations[1].category, violations[1].matched_text,
                     violations[1].invariant>>)
         ELSE Undefined]

checkCompliance(output, language) ==
  LET violations == Violations(COMPLIANCE_PATTERNS, output, mapLanguageToKey(language))
  IN  [passed |-> Len(violations) = 0,
       violations |-> violations,
       action |-> determineAction(violations),
       fallback_reason |->
         IF Len(violations) > 0
         THEN Some(<<violations[1].category, violations[1].matched_text,
                     violations[1].invariant>>)
         ELSE Undefined]

InitVerify ==
  /\ lastCheck = Undefined
  /\ pinned = Undefined

\* the n-th call of checkCompliance; `pinned` keeps an earlier call to compare with
Check(output, language) ==
  LET n == IF IsDefined(lastCheck) THEN Get(lastCheck).n + 1 ELSE 1
      call == [n |-> n, output |-> output, language |-> language,
               result |-> checkCompliance(output, language)]
  IN  /\ n <= MaxChecks
      /\ lastCheck' = Some(call)
      /\ pinned' \in {Some(call)} \cup (IF IsDefined(pinned) THEN {pinned} ELSE {})

NextVerify ==
  /\ \E output \in Texts, language \in Languages : Check(output, language)
  /\ UNCHANGED <<orchestratorVars, fold, webhookVars, auditVars, cacheVars, gateVars, storageVars>>

\* determineAction applied to lists of violations of every severity
SeverityLists ==
  UNION {[1..n -> [severity : Severities]] : n \in 0..MaxFold}

InitFold == fold = [violations |-> <<>>, action |-> determineAction(<<>>)]

DetermineAction(violations) ==
  fold' = [violations |-> violations, action |-> determineAction(violations)]

NextFold ==
  /\ \E violations \in SeverityLists : DetermineAction(violations)
  /\ UNCHANGED <<orchestratorVars, verifyVars, webhookVars, auditVars, cacheVars, gateVars, storageVars>>

(***************************************************************************)
(* The webhook handler processWebhook() and its idempotency cache          *)
(* (external/connectors/webhook.ts).  A request takes two steps: Receive   *)
(* (lines 149-208, up to the await of connector.process) and               *)
(* ProcessReturns (lines 208-215).  The clock `now` is Date.now(); of the   *)
(* two readings in a response, timestamp is kept and duration_ms, which    *)
(* no decision depends on, is left out.                                    *)
(***************************************************************************)
\* payload.idempotency_key: absent, the empty string, or a key
IdempotencyKeys == {Undefined, Some(""), Some("k1"), Some("k2")}

\* a valid payload, one with an unknown runtime, one whose input is no object
Payloads ==
  { [idempotency_key |-> k, runtime |-> p[1], input |-> p[2]] :
      k \in IdempotencyKeys,
      p \in {<<"mail", "object">>, <<"bogus", "object">>, <<"mail", "null">>} }

\* connector.process: the runtime returns a result, or it throws
ProcessOutcomes == {"returns", "throws"}

\* if (payload.idempotency_key), taken for every key
Truthy_Always(key) == TRUE

\* if (payload.idempotency_key): undefined and '' are falsy
Truthy(key) == IsDefined(key) /\ Get(key) # ""

Remove(cache, key) == [k \in DOMAIN cache \ {key} |-> cache[k]]

Put(cache, key, entry) ==
  [k \in DOMAIN cache \cup {key} |-> IF k = key THEN entry ELSE cache[k]]

\* a slip: >= for >, the entry expires one instant early
Expired_AtTtl(cached, t) == t - cached.timestamp >= CACHE_TTL_MS

\* Date.now() - cached.timestamp > CACHE_TTL_MS
Expired(cached, t) == t - cached.timestamp > CACHE_TTL_MS

\* a lookup that never finds anything
getCachedResponse_AlwaysMiss(cache, key, t) == Undefined

\* what getCachedResponse returns (null as Undefined)
getCachedResponse(cache, key, t) ==
  IF key \notin DOMAIN cache THEN Undefined
  ELSE IF Expired(cache[key], t) THEN Undefined
  ELSE Some(cache[key].response)

\* a lookup that leaves an expired entry where it is
AfterGet_KeepsExpired(cache, key, t) == cache

\* a lookup that restarts the window of the entry it finds
AfterGet_Refreshes(cache, key, t) ==
  IF key \notin DOMAIN cache THEN cache
  ELSE IF Expired(cache[key], t) THEN Remove(cache, key)
  ELSE Put(cache, key, [cache[key] EXCEPT !.timestamp = t])

\* what getCachedResponse leaves in the cache: an expired entry is deleted
AfterGet(cache, key, t) ==
  IF key \in DOMAIN cache /\ Expired(cache[key], t) THEN Remove(cache, key) ELSE cache

\* an eviction in place of the sweep: every entry goes, expired or not
Sweep_DropsLive(cache, t) == [k \in {} |-> cache[k]]

\* for (const [k, v] of entries()) if (now - v.timestamp > CACHE_TTL_MS) delete(k)
Sweep(cache, t) ==
  [k \in {x \in DOMAIN cache : ~Expired(cache[x], t)} |-> cache[k]]

\* a store that keeps successes only
setCachedResponse_SuccessOnly(cache, key, response, t) ==
  IF response.success THEN Put(cache, key, [response |-> response, timestamp |-> t])
  ELSE cache

setCachedResponse(cache, key, response, t) ==
  LET cleaned == IF Cardinality(DOMAIN cache) > HighWaterMark
                 THEN Sweep(cache, t) ELSE cache
  IN  Put(cleaned, key, [response |-> response, timestamp |-> t])

\* WebhookConnector.errorResponse
errorResponse(request, code, t) ==
  [request_id |-> request.request_id, success |-> FALSE, runtime |-> request.runtime,
   body |-> code, timestamp |-> t]

\* WebhookConnector.process, when the awaited runtime has returned or thrown
Process(request, outcome, t) ==
  IF request.runtime \notin {"mail", "relation", "decision"}
  THEN errorResponse(request, "INVALID_RUNTIME", t)
  ELSE IF outcome = "throws"
  THEN errorResponse(request, "PROCESSING_ERROR", t)
  ELSE [request_id |-> request.request_id, success |-> TRUE, runtime |-> request.runtime,
        body |-> "result", timestamp |-> t]

toWebhookResponse(response, idempotencyKey) ==
  IF response.success
  THEN [idempotency_key |-> idempotencyKey, success |-> TRUE,
        data |-> response.body, error |-> Undefined,
        meta |-> [request_id |-> response.request_id, runtime |-> response.runtime,
                  timestamp |-> response.timestamp]]
  ELSE [idempotency_key |-> idempotencyKey, success |-> FALSE,
        data |-> Undefined,
        error |-> Some([code |-> "PROCESSING_ERROR", message |-> response.body]),
        meta |-> [request_id |-> response.request_id, runtime |-> response.runtime,
                  timestamp |-> response.timestamp]]

\* the response of a failed validation (lines 163-176, 182-195)
ValidationError(payload, code, requestId, t) ==
  [idempotency_key |-> payload.idempotency_key, success |-> FALSE,
   data |-> Undefined,
   error |-> Some([code |-> code, message |-> code]),
   meta |-> [request_id |-> requestId, runtime |-> payload.runtime,
             timestamp |-> t]]

ReqIds == 1..MaxRequests

NoRequest ==
  [pc |-> "idle", payload |-> Undefined, via |-> "none", response |-> Undefined]

InitWebhook ==
  /\ now = 0
  /\ idempotencyCache = <<>>
  /\ requests = [i \in ReqIds |-> NoRequest]

\* a handler that validates the payload before it looks in the cache
Handle_ValidatesFirst(i, payload, cache, t) ==
  LET key == payload.idempotency_key
      cached == IF Truthy(key) THEN getCachedResponse(cache, key, t) ELSE Undefined
      begun == [NoRequest EXCEPT !.payload = Some(payload)]
  IN  IF payload.runtime \notin {"mail", "relation", "decision"}
      THEN [begun EXCEPT !.pc = "done", !.via = "validation",
                         !.response = Some(ValidationError(payload, "INVALID_RUNTIME", i, t))]
      ELSE IF payload.input # "object"
      THEN [begun EXCEPT !.pc = "done", !.via = "validation",
                         !.response = Some(ValidationError(payload, "INVALID_INPUT", i, t))]
      ELSE IF IsDefined(cached)
      THEN [begun EXCEPT !.pc = "done", !.via = "cache",
                         !.response = Some(toWebhookResponse(Get(cached), key))]
      ELSE [begun EXCEPT !.pc = "processing", !.via = "connector"]

\* processWebhook up to its return or its await; randomUUID() is the slot number
Handle(i, payload, cache, t) ==
  LET key == payload.idempotency_key
      cached == IF Truthy(key) THEN getCachedResponse(cache, key, t) ELSE Undefined
      begun == [NoRequest EXCEPT !.payload = Some(payload)]
  IN  IF IsDefined(cached)
      THEN [begun EXCEPT !.pc = "done", !.via = "cache",
                         !.response = Some(toWebhookResponse(Get(cached), key))]
      ELSE IF payload.runtime \notin {"mail", "relation", "decision"}
      THEN [begun EXCEPT !.pc = "done", !.via = "validation",
                         !.response = Some(ValidationError(payload, "INVALID_RUNTIME", i, t))]
      ELSE IF payload.input # "object"
      THEN [begun EXCEPT !.pc = "done", !.via = "validation",
                         !.response = Some(ValidationError(payload, "INVALID_INPUT", i, t))]
      ELSE [begun EXCEPT !.pc = "processing", !.via = "connector"]

Receive(i, payload) ==
  /\ requests[i].pc = "idle"
  /\ \A j \in ReqIds : j < i => requests[j].pc # "idle"
  /\ requests' = [requests EXCEPT ![i] = Handle(i, payload, idempotencyCache, now)]
  /\ idempotencyCache' =
       IF Truthy(payload.idempotency_key)
       THEN AfterGet(idempotencyCache, payload.idempotency_key, now)
       ELSE idempotencyCache
  /\ UNCHANGED now

\* the connector response of request i, should its runtime end with `outcome` now
ConnectorResponse(i, outcome) ==
  LET payload == Get(requests[i].payload)
  IN  Process([request_id |-> i, runtime |-> payload.runtime], outcome, now)

ProcessReturns(i, outcome) ==
  /\ requests[i].pc = "processing"
  /\ LET key == Get(requests[i].payload).idempotency_key
         response == ConnectorResponse(i, outcome)
     IN  /\ idempotencyCache' =
              IF Truthy(key)
              THEN setCachedResponse(idempotencyCache, key, response, now)
              ELSE idempotencyCache
         /\ requests' = [requests EXCEPT ![i].pc = "done",
                           ![i].response = Some(toWebhookResponse(response, key))]
  /\ UNCHANGED now

Tick ==
  /\ now + TickMs <= MaxNow
  /\ now' = now + TickMs
  /\ UNCHANGED <<idempotencyCache, requests>>

NextWebhook ==
  /\ \/ \E i \in ReqIds, payload \in Payloads : Receive(i, payload)
     \/ \E i \in ReqIds, outcome \in ProcessOutcomes : ProcessReturns(i, outcome)
     \/ Tick
  /\ UNCHANGED <<orchestratorVars, verifyVars, fold, auditVars, cacheVars, gateVars, storageVars>>

(***************************************************************************)
(* The SDK audit helper (surfaces/sdk/audit.ts).  writeAuditEvent awaits   *)
(* the storage three times (getStorage, upsertSession when the context     *)
(* has a session, writeEvent); each await resolves or rejects.             *)
(***************************************************************************)
AuditIds == {"a1", "a2"}

\* writeAuditEvent called directly, or through one of its helpers
AuditHelpers ==
  { [name |-> "writeAuditEvent", event_type |-> "PIPELINE_END", outcome |-> "FAIL"],
    [name |-> "auditPipelineStart", event_type |-> "PIPELINE_START", outcome |-> "PASS"],
    [name |-> "auditBoundaryBlocked", event_type |-> "BOUNDARY_BLOCKED", outcome |-> "BLOCKED"],
    [name |-> "auditVerifyFailed", event_type |-> "VERIFY_FAILED", outcome |-> "BLOCKED"] }

\* ctx.session_id
SessionIds == {Undefined, Some("s1")}

\* what the awaited storage call rejects with
StorageErrors == {"not initialized", "constraint failed"}

NoAudit ==
  [pc |-> "idle", helper |-> Undefined, session_id |-> Undefined,
   settled |-> "no", caught |-> Undefined]

InitAudit ==
  /\ auditEnabled = TRUE
  /\ audit = [a \in AuditIds |-> NoAudit]
  /\ sessions = {}
  /\ events = <<>>

\* the promise of writeAuditEvent (and of the helper awaiting it) resolves
Resolved(f) == [f EXCEPT !.pc = "returned", !.settled = "resolved"]

\* a catch that passes the error on
Catch_Rethrows(f, err) ==
  [f EXCEPT !.pc = "returned", !.settled = "rejected", !.caught = Some(err)]

\* catch (err) { ... }: the error is dropped and the function returns
Catch(f, err) == Resolved([f EXCEPT !.caught = Some(err)])

SetAuditEnabled(enabled) ==
  /\ auditEnabled' = enabled
  /\ UNCHANGED <<audit, sessions, events>>

\* writeAuditEvent up to `await getStorage()`
CallAudit(a, helper, sessionId) ==
  /\ audit[a].pc = "idle"
  /\ LET f == [NoAudit EXCEPT !.helper = Some(helper), !.session_id = sessionId]
     IN  audit' = [audit EXCEPT ![a] =
                     IF ~auditEnabled THEN Resolved(f) ELSE [f EXCEPT !.pc = "getStorage"]]
  /\ UNCHANGED <<auditEnabled, sessions, events>>

\* the awaited storage call resolves
StorageResolves(a) ==
  LET f == audit[a]
  IN  /\ f.pc \in {"getStorage", "upsertSession", "writeEvent"}
      /\ audit' = [audit EXCEPT ![a] =
           IF f.pc = "getStorage"
           THEN [f EXCEPT !.pc = IF IsDefined(f.session_id) THEN "upsertSession"
                                 ELSE "writeEvent"]
           ELSE IF f.pc = "upsertSession" THEN [f EXCEPT !.pc = "writeEvent"]
           ELSE Resolved(f)]
      /\ sessions' = IF f.pc = "upsertSession"
                     THEN sessions \cup {Get(f.session_id)} ELSE sessions
      /\ events' = IF f.pc = "writeEvent"
                   THEN Append(events, [session_id |-> f.session_id, request_id |-> a,
                                        event_type |-> Get(f.helper).event_type,
                                        outcome |-> Get(f.helper).outcome])
                   ELSE events
      /\ UNCHANGED auditEnabled

\* the awaited storage call rejects: control goes to the catch block
StorageRejects(a, err) ==
  /\ audit[a].pc \in {"getStorage", "upsertSession", "writeEvent"}
  /\ audit' = [audit EXCEPT ![a] = Catch(audit[a], err)]
  /\ UNCHANGED <<auditEnabled, sessions, events>>

NextAudit ==
  /\ \/ \E enabled \in BOOLEAN : SetAuditEnabled(enabled)
     \/ \E a \in AuditIds, helper \in AuditHelpers, sessionId \in SessionIds :
          CallAudit(a, helper, sessionId)
     \/ \E a \in AuditIds : StorageResolves(a)
     \/ \E a \in AuditIds, err \in StorageErrors : StorageRejects(a, err)
  /\ UNCHANGED <<orchestratorVars, verifyVars, fold, webhookVars, cacheVars, gateVars, storageVars>>

(***************************************************************************)
(* The bounded TTL/LRU store (Result Cache).  The sequence resultCache is   *)
(* in recency order, least recently used first.  Every operation takes one *)
(* unit of the clock cacheNow; lastUsed and lastCacheOp record, for the    *)
(* properties, when each resident key was last touched and what the last   *)
(* operation did.                                                          *)
(***************************************************************************)
CacheKeys == 1..(Capacity + 1)

Resident(cache) == {cache[i].key : i \in DOMAIN cache}

IndexOf(cache, key) == CHOOSE i \in DOMAIN cache : cache[i].key = key

Without(cache, i) == SubSeq(cache, 1, i - 1) \o SubSeq(cache, i + 1, Len(cache))

\* an entry is logically absent once now > expires_at
IsExpired(entry, t) == t > entry.expires_at

IsLive(entry, t) == ~IsExpired(entry, t)

\* a lookup that leaves the recency order as it is
Touch_KeepsPlace(cache, i) == cache

\* mark the entry at position i as the most recently used
Touch(cache, i) == Without(cache, i) \o <<cache[i]>>

\* get: the cache it leaves and the value it returns (absent as Undefined)
cacheGet(cache, key, t) ==
  IF key \notin Resident(cache) THEN [cache |-> cache, value |-> Undefined]
  ELSE LET i == IndexOf(cache, key)
       IN  IF IsExpired(cache[i], t)
           THEN [cache |-> Without(cache, i), value |-> Undefined]
           ELSE [cache |-> Touch(cache, i), value |-> Some(cache[i].value)]

\* plain LRU: the least recently used entry goes, expired or not
Evict_LeastRecent(cache, t) == Tail(cache)

\* an insertion that never makes room
Evict_Nothing(cache, t) == cache

\* make room in a full cache: one entry goes, the least recently used one,
\* an expired entry being preferred to a live one
Evict(cache, t) ==
  LET expired == {i \in DOMAIN cache : IsExpired(cache[i], t)}
  IN  IF expired # {}
      THEN Without(cache, CHOOSE i \in expired : \A j \in expired : i <= j)
      ELSE Tail(cache)

cachePut(cache, key, value, t) ==
  LET entry == [key |-> key, value |-> value, created_at |-> t,
                expires_at |-> t + CacheTtl]
  IN  IF key \in Resident(cache)
      THEN Without(cache, IndexOf(cache, key)) \o <<entry>>
      ELSE Append(IF Len(cache) >= Capacity THEN Evict(cache, t) ELSE cache, entry)

InitCache ==
  /\ cacheNow = 0
  /\ resultCache = <<>>
  /\ lastUsed = <<>>
  /\ lastCacheOp = [op |-> "none", key |-> 0, found |-> Undefined, removed |-> {}]

\* the bookkeeping after an operation that touched `touched` (a set of keys)
Recorded(op, key, found, cache, touched) ==
  /\ resultCache' = cache
  /\ lastUsed' = [k \in DOMAIN lastUsed \cup Resident(cache) |->
                    IF k \in touched \/ k \notin DOMAIN lastUsed
                    THEN cacheNow ELSE lastUsed[k]]
  /\ lastCacheOp' = [op |-> op, key |-> key, found |-> found,
                     removed |-> {e \in {resultCache[i] : i \in DOMAIN resultCache} :
                                    e.key \notin Resident(cache)}]
  /\ cacheNow' = cacheNow + 1

GetEntry(key) ==
  /\ cacheNow < MaxCacheNow
  /\ LET r == cacheGet(resultCache, key, cacheNow)
     IN  Recorded("get", key, r.value, r.cache,
                  IF IsDefined(r.value) THEN {key} ELSE {})

\* the value written is named after the moment of the write
PutEntry(key) ==
  /\ cacheNow < MaxCacheNow
  /\ Recorded("put", key, Undefined,
              cachePut(resultCache, key, cacheNow, cacheNow), {key})

CacheTick ==
  /\ cacheNow < MaxCacheNow
  /\ cacheNow' = cacheNow + 1
  /\ lastCacheOp' = [op |-> "tick", key |-> 0, found |-> Undefined, removed |-> {}]
  /\ UNCHANGED <<resultCache, lastUsed>>

NextCache ==
  /\ \/ \E key \in CacheKeys : GetEntry(key)
     \/ \E key \in CacheKeys : PutEntry(key)
     \/ CacheTick
  /\ UNCHANGED <<orchestratorVars, verifyVars, fold, webhookVars, auditVars, gateVars, storageVars>>

(***************************************************************************)
(* The admission gate decide() (unified gating).  An input is given with   *)
(* what the gate's matchers and scorers find in it; scores are in          *)
(* hundredths.  The caller writes a result back into the result cache      *)
(* after a decision to invoke.                                             *)
(***************************************************************************)
GateInput(text, normalized, skip, antiSkip, boost, structural, uncertainty) ==
  [text |-> text, normalized |-> normalized, skip |-> skip, anti_skip |-> antiSkip,
   lexicon_boost |-> boost, structural_score |-> structural,
   uncertainty_term |-> uncertainty]

GateInputs ==
  { GateInput("hello", "hello", Some("GREETING"), FALSE, 0, 0, 0),
    GateInput("run the tests", "run the tests", Some("OPERATIONAL"), FALSE, 0, 100, 0),
    GateInput("run to find the meaning", "run to find the meaning",
              Some("OPERATIONAL"), TRUE, 50, 35, 0),
    GateInput("run to find the meaning of life", "run to find the meaning of life",
              Some("OPERATIONAL"), TRUE, 50, 35, 1),
    GateInput("what is the point", "what is the point", Undefined, TRUE, 50, 36, 0),
    GateInput("WHAT IS THE POINT ", "what is the point", Undefined, TRUE, 50, 36, 0),
    GateInput("nice weather today", "nice weather today", Undefined, FALSE, 0, 35, 30) }

FastSignals == [critical : BOOLEAN, confident_classification : BOOLEAN]

\* hash(normalize(input) + locale), for the one locale considered
Fingerprint(input) == input.normalized

Decision(invoke, stage, reason, score, cachedResult) ==
  [invoke |-> invoke, stage |-> stage, reason |-> reason, score |-> score,
   cached_result |-> cachedResult]

SkipCategories == {"FACTUAL", "OPERATIONAL", "ACKNOWLEDGMENT", "GREETING"}

HardSkipReason(category) == "HARD_SKIP_" \o category

\* the safety stage looking at the critical signal only
SafetyBypass_CriticalOnly(signals) == signals.critical

\* Stage 0: either fast signal decides
SafetyBypass(signals) == signals.critical \/ signals.confident_classification

\* a heuristic stage that skips on a skip pattern whatever else matches
HeuristicSkip_IgnoresAntiSkip(input) == input.skip

\* Stage 2: a skip pattern decides unless an anti-skip pattern matches
HeuristicSkip(input) == IF input.anti_skip THEN Undefined ELSE input.skip

\* A(x)
Score(input) == input.lexicon_boost + input.structural_score + input.uncertainty_term

\* a gate that invokes at the threshold too
ScoreGate_AtThreshold(input) ==
  IF Score(input) >= Tau
  THEN Decision(TRUE, "score_gate", "SCORE_CALL", Some(Score(input)), Undefined)
  ELSE Decision(FALSE, "score_gate", "SCORE_SKIP", Some(Score(input)), Undefined)

\* Stage 3
ScoreGate(input) ==
  IF Score(input) > Tau
  THEN Decision(TRUE, "score_gate", "SCORE_CALL", Some(Score(input)), Undefined)
  ELSE Decision(FALSE, "score_gate", "SCORE_SKIP", Some(Score(input)), Undefined)

\* a gate that looks in the cache before the safety stage
decide_CacheFirst(input, signals, cache, t) ==
  LET lookup == cacheGet(cache, Fingerprint(input), t)
  IN  IF IsDefined(lookup.value)
      THEN [decision |-> Decision(FALSE, "cache", "CACHE_HIT", Undefined, lookup.value),
            executed |-> <<"cache">>, lookup |-> Some(lookup)]
      ELSE IF SafetyBypass(signals)
      THEN [decision |-> Decision(FALSE, "safety", "SAFETY_BYPASS", Undefined, Undefined),
            executed |-> <<"cache", "safety">>, lookup |-> Some(lookup)]
      ELSE IF IsDefined(HeuristicSkip(input))
      THEN [decision |-> Decision(FALSE, "heuristic_skip", HardSkipReason(Get(HeuristicSkip(input))),
                                  Undefined, Undefined),
            executed |-> <<"cache", "safety", "heuristic_skip">>, lookup |-> Some(lookup)]
      ELSE [decision |-> ScoreGate(input),
            executed |-> <<"cache", "safety", "heuristic_skip", "score_gate">>,
            lookup |-> Some(lookup)]

\* a gate that reserves a place in the cache when it decides to invoke
decide_WritesThrough(input, signals, cache, t) ==
  IF SafetyBypass(signals)
  THEN [decision |-> Decision(FALSE, "safety", "SAFETY_BYPASS", Undefined, Undefined),
        executed |-> <<"safety">>, lookup |-> Undefined]
  ELSE LET lookup == cacheGet(cache, Fingerprint(input), t)
           reserved == [cache |-> cachePut(lookup.cache, Fingerprint(input), t, t),
                        value |-> Undefined]
       IN  IF IsDefined(lookup.value)
           THEN [decision |-> Decision(FALSE, "cache", "CACHE_HIT", Undefined, lookup.value),
                 executed |-> <<"safety", "cache">>, lookup |-> Some(lookup)]
           ELSE IF IsDefined(HeuristicSkip(input))
           THEN [decision |-> Decision(FALSE, "heuristic_skip",
                                       HardSkipReason(Get(HeuristicSkip(input))),
                                       Undefined, Undefined),
                 executed |-> <<"safety", "cache", "heuristic_skip">>,
                 lookup |-> Some(lookup)]
           ELSE [decision |-> ScoreGate(input),
                 executed |-> <<"safety", "cache", "heuristic_skip", "score_gate">>,
                 lookup |-> IF ScoreGate(input).invoke THEN Some(reserved) ELSE Some(lookup)]

\* decide: the decision, the stages that ran, and the cache lookup if one was made
decide(input, signals, cache, t) ==
  IF SafetyBypass(signals)
  THEN [decision |-> Decision(FALSE, "safety", "SAFETY_BYPASS", Undefined, Undefined),
        executed |-> <<"safety">>, lookup |-> Undefined]
  ELSE LET lookup == cacheGet(cache, Fingerprint(input), t)
       IN  IF IsDefined(lookup.value)
           THEN [decision |-> Decision(FALSE, "cache", "CACHE_HIT", Undefined, lookup.value),
                 executed |-> <<"safety", "cache">>, lookup |-> Some(lookup)]
           ELSE IF IsDefined(HeuristicSkip(input))
           THEN [decision |-> Decision(FALSE, "heuristic_skip", HardSkipReason(Get(HeuristicSkip(input))),
                                       Undefined, Undefined),
                 executed |-> <<"safety", "cache", "heuristic_skip">>,
                 lookup |-> Some(lookup)]
           ELSE [decision |-> ScoreGate(input),
                 executed |-> <<"safety", "cache", "heuristic_skip", "score_gate">>,
                 lookup |-> Some(lookup)]

InitGate == gate = Undefined

Decide(input, signals) ==
  /\ cacheNow < MaxCacheNow
  /\ LET d == decide(input, signals, resultCache, cacheNow)
     IN  /\ gate' = Some([input |-> input, signals |-> signals, decision |-> d.decision,
                          executed |-> d.executed, written |-> FALSE])
         /\ IF IsDefined(d.lookup)
            THEN Recorded("get", Fingerprint(input), Get(d.lookup).value,
                          Get(d.lookup).cache,
                          IF IsDefined(Get(d.lookup).value) THEN {Fingerprint(input)} ELSE {})
            ELSE UNCHANGED cacheVars

\* the caller, after the expensive call: the result goes into the cache
WriteBack ==
  /\ IsDefined(gate)
  /\ Get(gate).decision.invoke
  /\ ~Get(gate).written
  /\ gate' = Some([Get(gate) EXCEPT !.written = TRUE])
  /\ PutEntry(Fingerprint(Get(gate).input))

NextGate ==
  /\ \/ \E input \in GateInputs, signals \in FastSignals : Decide(input, signals)
     \/ WriteBack
     \/ CacheTick /\ UNCHANGED gate
  /\ UNCHANGED <<orchestratorVars, verifyVars, fold, webhookVars, auditVars, storageVars>>

(***************************************************************************)
(* The audit storage SQLiteStorage (external/storage/sqlite.ts).  Its      *)
(* methods hold no await: each call is one step.  `database` is the file   *)
(* at dbPath, which outlives close(); `storageNow` is Date.now().          *)
(***************************************************************************)
StorageSessionIds == {"s1", "s2"}

\* event.session_id: null, or the id of a session
EventSessionIds == {Undefined} \cup {Some(id) : id \in StorageSessionIds}

InitStorage ==
  /\ storage = [db |-> FALSE, initialized |-> FALSE]
  /\ database = [sessions |-> {}, events |-> <<>>]
  /\ storageNow = 0
  /\ lastStorageOp = [op |-> "none", session_id |-> Undefined, outcome |-> "ok",
                      returned |-> Undefined]

\* a guard that lets every call through
ensureInitialized_Passes(s) == FALSE

\* ensureInitialized: TRUE when it throws 'Storage not initialized. Call init() first.'
ensureInitialized(s) == ~s.initialized \/ ~s.db

RowsOf(table, sessionId) == {row \in table : row.session_id = sessionId}

\* INSERT OR REPLACE: the row is written anew
upsert_Replaces(table, sessionId, t) ==
  (table \ RowsOf(table, sessionId))
    \cup {[session_id |-> sessionId, created_at |-> t, last_activity |-> t]}

\* INSERT ... ON CONFLICT(session_id) DO UPDATE SET last_activity = excluded.last_activity
upsert(table, sessionId, t) ==
  IF RowsOf(table, sessionId) = {}
  THEN table \cup {[session_id |-> sessionId, created_at |-> t, last_activity |-> t]}
  ELSE {IF row.session_id = sessionId THEN [row EXCEPT !.last_activity = t] ELSE row :
          row \in table}

\* the outcome of a call, as the caller sees it
Called(op, sessionId, outcome, returned) ==
  lastStorageOp' = [op |-> op, session_id |-> sessionId, outcome |-> outcome,
                    returned |-> returned]

Rejected(op, sessionId) ==
  /\ Called(op, sessionId, "not initialized", Undefined)
  /\ UNCHANGED <<storage, database, storageNow>>

StorageInit ==
  /\ storage' = [db |-> TRUE, initialized |-> TRUE]
  /\ Called("init", Undefined, "ok", Undefined)
  /\ UNCHANGED <<database, storageNow>>

StorageClose ==
  /\ storage' = IF storage.db THEN [db |-> FALSE, initialized |-> FALSE] ELSE storage
  /\ Called("close", Undefined, "ok", Undefined)
  /\ UNCHANGED <<database, storageNow>>

UpsertSession(sessionId) ==
  IF ensureInitialized(storage) THEN Rejected("upsertSession", Some(sessionId))
  ELSE LET updated == upsert(database.sessions, sessionId, storageNow)
       IN  /\ database' = [database EXCEPT !.sessions = updated]
           /\ Called("upsertSession", Some(sessionId), "ok",
                     Some(CHOOSE row \in updated : row.session_id = sessionId))
           /\ UNCHANGED <<storage, storageNow>>

GetSession(sessionId) ==
  IF ensureInitialized(storage) THEN Rejected("getSession", Some(sessionId))
  ELSE /\ Called("getSession", Some(sessionId), "ok",
                 IF RowsOf(database.sessions, sessionId) = {} THEN Undefined
                 ELSE Some(CHOOSE row \in database.sessions : row.session_id = sessionId))
       /\ UNCHANGED <<storage, database, storageNow>>

\* the FOREIGN KEY of events.session_id: a session id must be one of a session
WriteEvent(sessionId) ==
  IF ensureInitialized(storage) THEN Rejected("writeEvent", sessionId)
  ELSE IF IsDefined(sessionId) /\ RowsOf(database.sessions, Get(sessionId)) = {}
  THEN /\ Called("writeEvent", sessionId, "constraint failed", Undefined)
       /\ UNCHANGED <<storage, database, storageNow>>
  ELSE /\ Len(database.events) < MaxEvents
       /\ database' = [database EXCEPT !.events =
            Append(@, [id |-> Len(@) + 1, session_id |-> sessionId])]
       /\ Called("writeEvent", sessionId, "ok", Some(Len(database.events) + 1))
       /\ UNCHANGED <<storage, storageNow>>

\* getEventsForSession
GetEventsForSession(sessionId) ==
  IF ensureInitialized(storage) THEN Rejected("getEventsForSession", Some(sessionId))
  ELSE /\ Called("getEventsForSession", Some(sessionId), "ok",
                 Some(SelectSeq(database.events, LAMBDA e : e.session_id = Some(sessionId))))
       /\ UNCHANGED <<storage, database, storageNow>>

\* isHealthy: SELECT 1 on an open database answers, or throws
IsHealthy(selects) ==
  /\ Called("isHealthy", Undefined, "ok",
            Some(IF ~storage.db \/ ~storage.initialized THEN FALSE ELSE selects))
  /\ UNCHANGED <<storage, database, storageNow>>

StorageTick ==
  /\ storageNow < MaxStorageNow
  /\ storageNow' = storageNow + 1
  /\ UNCHANGED <<storage, database, lastStorageOp>>

NextStorage ==
  /\ \/ StorageInit
     \/ StorageClose
     \/ \E sessionId \in StorageSessionIds : UpsertSession(sessionId)
     \/ \E sessionId \in StorageSessionIds : GetSession(sessionId)
     \/ \E sessionId \in EventSessionIds : WriteEvent(sessionId)
     \/ \E sessionId \in StorageSessionIds : GetEventsForSession(sessionId)
     \/ \E selects \in BOOLEAN : IsHealthy(selects)
     \/ StorageTick
  /\ UNCHANGED <<orchestratorVars, verifyVars, fold, webhookVars, auditVars, cacheVars, gateVars>>

Init == InitOrchestrator /\ InitVerify /\ InitFold /\ InitWebhook /\ InitAudit /\ InitCache /\ InitGate /\ InitStorage

Next == NextOrchestrator /\ UNCHANGED <<verifyVars, fold, webhookVars, auditVars, cacheVars, gateVars, storageVars>>

Spec == Init /\ [][Next]_vars

SpecVerify == Init /\ [][NextVerify]_vars

SpecFold == Init /\ [][NextFold]_vars

SpecWebhook == Init /\ [][NextWebhook]_vars

SpecStorage == Init /\ [][NextStorage]_vars

SpecGate == Init /\ [][NextGate]_vars

SpecCache == Init /\ [][NextCache]_vars

SpecAudit == Init /\ [][NextAudit]_vars

(***************************************************************************)
(* Properties of the orchestrator                                          *)
(***************************************************************************)

Finished(r) == run[r].pc \in {"returned", "rejected"}

Returned(r) == run[r].pc = "returned"

Denied(r) ==
  IsDefined(run[r].boundaryDecision) /\ ~Get(run[r].boundaryDecision).permitted

\* the number of times x occurs in the sequence s
Count(s, x) == Cardinality({i \in 1..Len(s) : s[i] = x})

\* the states of a complete traversal, CLARIFY/PLAN/ACT being recorded as ACT
FullTraversal == <<"PERMIT", "SENSE", "ACT", "VERIFY", "STOP">>

IsPrefix(s, t) == Len(s) <= Len(t) /\ \A i \in 1..Len(s) : s[i] = t[i]

\* C1: every run of enoqCore ends in state STOP, in a bounded number of
\* transitions and without repeating a state, on the success path and under
\* every failure of the generation stage: no finished run is left in a
\* non-terminal state.
C1_EveryRunEndsInStop ==
  \A r \in RunIds :
    /\ Finished(r) => run[r].phase = "STOP"
    /\ Len(run[r].transitions) <= Len(StateOrder)
    /\ \A s \in PipelineState : Count(run[r].statesTraversed, s) <= 1

\* C2: when the generation stage raises Unavailable, RateLimited or Timeout,
\* enoqCore does not propagate the error: the run returns a result sealed by
\* STOP; nothing is thrown past the orchestrator.
C2_GenerationFailureIsReturned ==
  \A r \in RunIds :
    /\ run[r].pc # "rejected"
    /\ IsDefined(run[r].error) => IsDefined(run[r].result)

\* C3: every result enoqCore returns carries a signal list whose last element
\* is STOP, for every configuration.
C3_ResultSignalsEndWithStop ==
  \A r \in RunIds :
    IsDefined(run[r].result) =>
      /\ Get(run[r].result).signals # <<>>
      /\ Last(Get(run[r].result).signals) = "STOP"

\* C4: the states a run records are linear and forward-only: they follow the
\* order PERMIT, SENSE, ACT, VERIFY, STOP, each at most once and none skipped,
\* so a returned run that records its states has recorded exactly that sequence.
C4_StatesLinearNoneSkipped ==
  \A r \in RunIds :
    /\ IsPrefix(run[r].statesTraversed, FullTraversal)
    /\ (Returned(r) /\ run[r].signalsEnabled) => run[r].statesTraversed = FullTraversal

\* C5: every output enoqCore returns has been passed through verifyOutput()
\* before STOP.
C5_VerifyBeforeOutput ==
  \A r \in RunIds :
    IsDefined(run[r].result) =>
      /\ Count(run[r].calls, "verifyOutput") >= 1
      /\ IsDefined(Get(run[r].result).verification)

\* C6: permit() is called on every run before the runtime is invoked, whatever
\* the input and the configuration.
C6_PermitPrecedesRuntime ==
  \A r \in RunIds :
    \A i \in 1..Len(run[r].calls) :
      run[r].calls[i] = "runtimeEnoq" =>
        \E j \in 1..(i - 1) : run[r].calls[j] = "permit"

\* C7: when the boundary decision of a request is not permitted, the
\* generation stage is never invoked for that request.
C7_NoGenerationAfterDenial ==
  \A r \in RunIds : Denied(r) => Count(run[r].calls, "runtimeEnoq") = 0

\* C8: a denial by the boundary check is data, not an exception: a denied run
\* does not abort, it returns a result that records the boundary decision, and
\* it goes on through the remaining states to STOP.
C8_DenialIsDataRunReachesStop ==
  \A r \in RunIds :
    (Denied(r) /\ Finished(r)) =>
      /\ Returned(r)
      /\ Get(run[r].result).boundary = Some([permitted |-> FALSE])
      /\ run[r].phase = "STOP"

C10_SuccessIffVerdictPassed ==
  \A r \in RunIds :
    IsDefined(run[r].pipelineEnd) =>
      /\ (~Get(run[r].pipelineEnd).success) <=>
           (IsDefined(run[r].verificationDecision)
              /\ ~Get(run[r].verificationDecision).passed)
      /\ (~Get(run[r].pipelineEnd).success) =>
           /\ Returned(r)
           /\ run[r].phase = "STOP"
           /\ Get(run[r].result).verification = run[r].verificationDecision

C10_Witness ==
  \E r \in RunIds :
    /\ IsDefined(run[r].pipelineEnd)
    /\ ~Get(run[r].pipelineEnd).success
    /\ run[r].phase = "STOP"

\* C11: input errors (an empty or malformed payload) are rejected before PERMIT
\* and never enter the state machine: for an empty message no state is
\* recorded and neither permit() nor the runtime is called.
C11_InputErrorsRejectedBeforePermit ==
  \A r \in RunIds :
    (run[r].pc # "idle" /\ run[r].message = "") =>
      /\ run[r].calls = <<>>
      /\ run[r].statesTraversed = <<>>

\* the states a run records by itself, given how far it has come
OwnStates(f) ==
  IF ~f.signalsEnabled \/ f.pc = "idle" THEN <<>>
  ELSE IF f.pc \in {"awaiting", "rejected"} THEN <<"PERMIT", "SENSE">>
  ELSE <<"PERMIT", "SENSE", "ACT">>
         \o (IF IsDefined(f.verificationDecision) THEN <<"VERIFY">> ELSE <<>>)
         \o <<"STOP">>

NotAct(s) == s # "ACT"

\* the signals a run emits by itself (ACT is tracked but not emitted)
OwnSignals(f) == SelectSeq(OwnStates(f), NotAct)

\* a step changes the locals of at most one run
OneRunSteps == \E r \in RunIds : \A q \in RunIds \ {r} : run'[q] = run[q]

\* what run r holds and returns is made of its own transitions only
OwnTransitionsOnly(r) ==
  /\ run[r].statesTraversed = OwnStates(run[r])
  /\ run[r].history = OwnSignals(run[r])
  /\ IsDefined(run[r].result) =>
       /\ Get(run[r].result).signals = OwnSignals(run[r])
       /\ Get(run[r].pipelineEnd).states_traversed = OwnStates(run[r])

\* C12 (as stated): interleaved runs are independent, the state sequence and
\* the signal history a run returns contain only its own transitions, and the
\* runs share no state (the orchestrator uses neither cache): a step of a run
\* changes nothing but that run's locals.
C12_NoSharedState ==
  [][OneRunSteps /\ metrics' = metrics /\ \A r \in RunIds : OwnTransitionsOnly(r)']_vars

\* C12 (amended): interleaved runs are independent in what they hold and
\* return: whatever the other runs have done, the state sequence and the
\* signal history of a run contain only its own transitions; the state the
\* runs do share is the process-wide observer, whose metrics count the events
\* of all runs.
C12_RunsIndependent ==
  /\ \A r \in RunIds : OwnTransitionsOnly(r)
  /\ metrics.total_pipelines = Cardinality({r \in RunIds : Returned(r)})
  /\ metrics.boundary_blocks = Cardinality({r \in RunIds : run[r].blocked})

C12_Witness ==
  \E r, q \in RunIds :
    /\ r # q
    /\ run[r].pc = "awaiting" /\ run[r].history # <<>>
    /\ Returned(q) /\ Get(run[q].result).signals # <<>>
    /\ metrics.total_pipelines = 1

\* C13: the action of a verdict is the severity fold of its violations: STOP
\* if any violation has severity stop; otherwise FALLBACK if any has severity
\* block or warning; DELIVER if and only if there are no violations.
C13_ActionIsSeverityFold ==
  /\ HasSeverity(fold.violations, "stop") => fold.action = "STOP"
  /\ (/\ ~HasSeverity(fold.violations, "stop")
      /\ HasSeverity(fold.violations, "block") \/ HasSeverity(fold.violations, "warning"))
       => fold.action = "FALLBACK"
  /\ fold.action = "DELIVER" <=> fold.violations = <<>>

C13_Witness ==
  /\ HasSeverity(fold.violations, "stop")
  /\ HasSeverity(fold.violations, "block")
  /\ HasSeverity(fold.violations, "warning")
  /\ fold.action = "STOP"

Received(i) == requests[i].pc # "idle"

Key(i) == Get(requests[i].payload).idempotency_key

\* the step receives request j (lines 149-208)
Receives(j) == requests[j].pc = "idle" /\ requests'[j].pc # "idle"

\* the step ends the processing of request i (lines 208-215)
Completes(i) == requests[i].pc = "processing" /\ requests'[i].pc = "done"

\* the entry is within the 5-minute window at time t
Live(cached, t) == t - cached.timestamp <= CACHE_TTL_MS

\* request j arrives with the key of the finished request i, and no other
\* request has carried that key
SecondCall(i, j) ==
  /\ i # j
  /\ requests[i].pc = "done"
  /\ Receives(j)
  /\ Get(requests'[j].payload).idempotency_key = Key(i)
  /\ \A h \in ReqIds \ {i, j} : Received(h) => Key(h) # Key(i)

\* the time at which the first call's response was made
AnsweredAt(i) == Get(requests[i].response).meta.timestamp

\* C15 (as stated): of two sequential calls with the same idempotency key
\* within the 5-minute window, the second returns the first call's response,
\* request_id included, without reprocessing; after the window the call is
\* not answered from the cache.
C15_SameKeySameResponse ==
  [][\A i, j \in ReqIds :
       (SecondCall(i, j) /\ IsDefined(Key(i))) =>
         /\ now - AnsweredAt(i) <= CACHE_TTL_MS =>
              /\ requests'[j].pc = "done"
              /\ requests'[j].response = requests[i].response
         /\ now - AnsweredAt(i) > CACHE_TTL_MS => requests'[j].via # "cache"]_vars

\* C15 (amended): when the first call carried a non-empty key and was
\* processed by the connector (it passed validation; its response, a result
\* or a PROCESSING_ERROR, was cached), a second call with that key within 5
\* minutes of that response returns the identical response without
\* reprocessing; after the window the second call is handled anew.
C15_ProcessedCallIsReplayed ==
  [][\A i, j \in ReqIds :
       (SecondCall(i, j) /\ IsDefined(Key(i)) /\ Get(Key(i)) # ""
          /\ requests[i].via = "connector") =>
         /\ now - AnsweredAt(i) <= CACHE_TTL_MS =>
              /\ requests'[j].pc = "done"
              /\ requests'[j].via = "cache"
              /\ requests'[j].response = requests[i].response
         /\ now - AnsweredAt(i) > CACHE_TTL_MS =>
              /\ requests'[j].via # "cache"
              /\ Key(i) \notin DOMAIN idempotencyCache']_vars

C15_Witness ==
  \E i, j \in ReqIds :
    /\ i # j
    /\ requests[i].pc = "done" /\ requests[i].via = "connector"
    /\ requests[j].pc = "done" /\ requests[j].via = "cache"
    /\ Key(i) = Key(j)
    /\ requests[j].response = requests[i].response
    /\ Get(requests[j].response).meta.request_id = i
    /\ now - AnsweredAt(i) = CACHE_TTL_MS

\* C16: first writer wins: once a response is cached for a key and within
\* the window, no later completer overwrites it.
C16_FirstWriterWins ==
  [][\A k \in DOMAIN idempotencyCache :
       Live(idempotencyCache[k], now) =>
         /\ k \in DOMAIN idempotencyCache'
         /\ idempotencyCache'[k] = idempotencyCache[k]]_vars

C19_CacheBounded == Cardinality(DOMAIN idempotencyCache) <= HighWaterMark + 1

C28_SignalsAreStatesTraversed ==
  \A r \in RunIds :
    Returned(r) =>
      Get(run[r].result).signals = Get(run[r].pipelineEnd).states_traversed

\* the place of a rule in the configuration
RuleIndex(id) ==
  CHOOSE n \in 1..Len(COMPLIANCE_PATTERNS) : COMPLIANCE_PATTERNS[n].id = id

\* C29: checkCompliance records at most one violation per configured rule, the
\* first matching pattern of the rule's list: the violations of a verdict have
\* pairwise distinct rule ids and appear in the order of the configuration.
C29_OneViolationPerRule ==
  IsDefined(lastCheck) =>
    LET call == Get(lastCheck)
        v == call.result.violations
    IN  /\ \A i, j \in DOMAIN v :
             i < j => RuleIndex(v[i].pattern_id) < RuleIndex(v[j].pattern_id)
        /\ \A i \in DOMAIN v :
             LET list == PatternsToCheck(COMPLIANCE_PATTERNS[RuleIndex(v[i].pattern_id)],
                                         mapLanguageToKey(call.language))
             IN  \E n \in DOMAIN list :
                   /\ list[n] = v[i].matched_text
                   /\ list[n] \in call.output
                   /\ \A m \in 1..(n - 1) : list[m] \notin call.output

C29_Witness ==
  /\ IsDefined(lastCheck)
  /\ Get(lastCheck).language = "it"
  /\ {"dovresti", "you should", "if I were you"} \subseteq Get(lastCheck).output
  /\ Len(Get(lastCheck).result.violations) = 2
  /\ Get(lastCheck).result.violations[1].matched_text = "dovresti"

\* the rearrangements of the positions 1..n
Orderings(n) == {p \in [1..n -> 1..n] : \A i, j \in 1..n : p[i] = p[j] => i = j}

Permuted(violations, p) == [i \in DOMAIN violations |-> violations[p[i]]]

\* C30: the action depends only on the multiset of the severities of the
\* violations, never on their order: every permutation of the violations
\* gives the same action.
C30_ActionIgnoresOrder ==
  \A p \in Orderings(Len(fold.violations)) :
    determineAction(Permuted(fold.violations, p)) = fold.action

C30_Witness ==
  /\ Len(fold.violations) >= 3
  /\ fold.violations[1].severity = "warning"
  /\ fold.violations[2].severity = "block"
  /\ fold.violations[Len(fold.violations)].severity = "stop"
  /\ fold.action = "STOP"

\* C27: audit writes are best effort: writeAuditEvent, and the helpers that
\* await it, never reject to the caller, whatever the storage raises (storage
\* unavailable, session upsert fails, event write fails); the call returns
\* with the error dropped.
C27_AuditNeverRejects ==
  \A a \in AuditIds :
    /\ audit[a].settled # "rejected"
    /\ IsDefined(audit[a].caught) =>
         /\ audit[a].pc = "returned"
         /\ audit[a].settled = "resolved"

C27_Witness ==
  \E a, b \in AuditIds :
    /\ audit[a].settled = "resolved"
    /\ audit[a].caught = Some("constraint failed")
    /\ Get(audit[a].helper).name = "auditVerifyFailed"
    /\ audit[a].session_id = Some("s1")
    /\ "s1" \in sessions
    /\ audit[b].settled = "resolved"
    /\ audit[b].caught = Some("not initialized")
    /\ events = <<>>

\* C21: a bounded cache of capacity N holds at most N entries in every
\* reachable state, after any sequence of put and get operations.
C21_SizeAtMostCapacity ==
  /\ Len(resultCache) <= Capacity
  /\ Cardinality(Resident(resultCache)) = Len(resultCache)

C21_Witness ==
  /\ Len(resultCache) = Capacity
  /\ lastCacheOp.op = "put"
  /\ lastCacheOp.removed # {}
  /\ \A e \in lastCacheOp.removed : e.key # lastCacheOp.key

\* the step is a put of a key that is not resident, into a full cache
InsertsIntoFull ==
  /\ lastCacheOp'.op = "put"
  /\ lastCacheOp'.key \notin Resident(resultCache)
  /\ Len(resultCache) = Capacity

\* C22: inserting one key more than the capacity leaves exactly capacity keys
\* resident, and when no entry has expired the evicted key is the one that
\* was touched least recently, a put and a successful get both counting as
\* a touch.
C22_EvictsLeastRecentlyUsed ==
  [][InsertsIntoFull =>
       /\ Len(resultCache') = Capacity
       /\ lastCacheOp'.key \in Resident(resultCache')
       /\ (\A i \in DOMAIN resultCache : IsLive(resultCache[i], cacheNow)) =>
            \E k \in Resident(resultCache) :
              /\ \A other \in Resident(resultCache) : lastUsed[k] <= lastUsed[other]
              /\ Resident(resultCache') =
                   (Resident(resultCache) \ {k}) \cup {lastCacheOp'.key}]_vars

C22_Witness ==
  /\ lastCacheOp.op = "put"
  /\ Len(resultCache) = Capacity
  /\ \E e \in lastCacheOp.removed :
       /\ IsLive(e, cacheNow - 1)
       /\ \E i \in DOMAIN resultCache :
            /\ resultCache[i].created_at < e.created_at
            /\ lastUsed[resultCache[i].key] > e.created_at

(***************************************************************************)
(* The admission gate                                                      *)
(***************************************************************************)
Decided == IsDefined(gate)

\* the cache holds a live result for the input at the moment t
Hit(cache, input, t) ==
  \E i \in DOMAIN cache : cache[i].key = input.normalized /\ ~(t > cache[i].expires_at)

\* C23: whenever critical or confident_classification is set, the decision is
\* invoke = false with reason SAFETY_BYPASS at stage safety, whatever the
\* cache holds and whatever the heuristics and the score say.
C23_SafetyDominates ==
  Decided =>
    LET g == Get(gate)
    IN  (g.signals.critical \/ g.signals.confident_classification) =>
          /\ g.decision.invoke = FALSE
          /\ g.decision.reason = "SAFETY_BYPASS"
          /\ g.decision.stage = "safety"

\* a safety bypass on the confident classification alone, for an input whose
\* result is cached and whose score is above the threshold
C23_Witness ==
  /\ Decided
  /\ ~Get(gate).signals.critical
  /\ Get(gate).signals.confident_classification
  /\ Get(gate).decision.reason = "SAFETY_BYPASS"
  /\ Hit(resultCache, Get(gate).input, cacheNow)
  /\ Get(gate).input.anti_skip
  /\ Score(Get(gate).input) > Tau

StageOrder == <<"safety", "cache", "heuristic_skip", "score_gate">>

StageIndex(stage) == CHOOSE i \in DOMAIN StageOrder : StageOrder[i] = stage

\* whether the condition of the i-th stage holds for a call
StageHolds(i, input, signals, cache, t) ==
  CASE i = 1 -> signals.critical \/ signals.confident_classification
    [] i = 2 -> Hit(cache, input, t)
    [] i = 3 -> IsDefined(input.skip) /\ ~input.anti_skip
    [] OTHER -> TRUE

\* a step that is a call of decide: one that read the cache, or one that
\* left it alone and brought a new decision
Decides ==
  \/ /\ IsDefined(gate') /\ ~Get(gate').written
     /\ cacheNow' = cacheNow + 1 /\ lastCacheOp'.op = "get"
  \/ /\ gate' # gate
     /\ UNCHANGED cacheVars

\* C24: the stages are evaluated in the order safety, cache, heuristic skip,
\* score gate; the stage returned is the earliest whose condition holds, the
\* stages that ran are exactly those up to it, and a decision at the safety
\* stage leaves the cache unread.
C24_EarliestStageDecides ==
  [][Decides =>
       LET g == Get(gate')
           n == StageIndex(g.decision.stage)
       IN  /\ StageHolds(n, g.input, g.signals, resultCache, cacheNow)
           /\ \A i \in 1..(n - 1) :
                ~StageHolds(i, g.input, g.signals, resultCache, cacheNow)
           /\ g.executed = SubSeq(StageOrder, 1, n)
           /\ (n = 1 => UNCHANGED cacheVars)]_vars

\* a cache hit decides for an input the score gate would have invoked for
C24_Witness ==
  /\ Decided
  /\ Get(gate).decision.stage = "cache"
  /\ Get(gate).executed = <<"safety", "cache">>
  /\ Score(Get(gate).input) > Tau
  /\ lastCacheOp.op = "get"

\* C25: when an anti-skip pattern matches the input, the decision never has a
\* HARD_SKIP reason, and unless the safety or the cache stage decided, the
\* score gate decides.
C25_AntiSkipPrecedes ==
  Decided =>
    LET g == Get(gate)
    IN  g.input.anti_skip =>
          /\ g.decision.stage # "heuristic_skip"
          /\ g.decision.reason \notin {HardSkipReason(c) : c \in SkipCategories}
          /\ g.decision.stage \notin {"safety", "cache"} => g.decision.stage = "score_gate"

\* an input matching a skip pattern and an anti-skip pattern, decided by the score
C25_Witness ==
  /\ Decided
  /\ IsDefined(Get(gate).input.skip)
  /\ Get(gate).input.anti_skip
  /\ Get(gate).decision.stage = "score_gate"

\* C26: a decision of the score gate is invoke = true with SCORE_CALL exactly
\* when A(x) > tau, and invoke = false with SCORE_SKIP otherwise, A(x) = tau
\* included.
C26_ScoreGateIsStrict ==
  Decided =>
    LET g == Get(gate)
        A == g.input.lexicon_boost + g.input.structural_score + g.input.uncertainty_term
    IN  g.decision.stage = "score_gate" =>
          /\ g.decision.invoke <=> A > Tau
          /\ g.decision.invoke => g.decision.reason = "SCORE_CALL"
          /\ ~g.decision.invoke => g.decision.reason = "SCORE_SKIP"

\* an input scoring exactly the threshold is skipped
C26_Witness ==
  /\ Decided
  /\ Get(gate).decision.stage = "score_gate"
  /\ Score(Get(gate).input) = Tau
  /\ Get(gate).decision.reason = "SCORE_SKIP"

\* the rules a verdict reports as violated
RulesOf(call) ==
  {call.result.violations[i].pattern_id : i \in DOMAIN call.result.violations}

\* C31: every rule violated by a text under the default locale (en) is also
\* violated by that text under any other locale, and a locale without patterns
\* of its own gets the verdict of the default locale.
C31_DefaultLocaleIsFallback ==
  (/\ IsDefined(pinned)
   /\ Get(pinned).output = Get(lastCheck).output
   /\ Get(pinned).language = "en")
    => /\ RulesOf(Get(pinned)) \subseteq RulesOf(Get(lastCheck))
       /\ Get(lastCheck).language \notin {"en", "it", "es", "fr", "de"}
            => Get(lastCheck).result = Get(pinned).result

\* an Italian check reports a rule that has English patterns only
C31_Witness ==
  /\ IsDefined(pinned)
  /\ Get(pinned).output = Get(lastCheck).output
  /\ Get(pinned).language = "en"
  /\ Get(lastCheck).language = "it"
  /\ "RANK-001" \in RulesOf(Get(pinned))
  /\ "RANK-001" \in RulesOf(Get(lastCheck))

\* the step receives request j, whose key is in the cache
LooksUp(j, k) ==
  /\ Receives(j)
  /\ Get(requests'[j].payload).idempotency_key = k
  /\ k \in DOMAIN idempotencyCache

\* C32: lazy expiry: a lookup of an entry older than the TTL (strictly) answers
\* absent and removes that entry and no other; a lookup of an entry within its
\* TTL answers its value and removes nothing.
C32_LazyExpiry ==
  [][\A j \in ReqIds, k \in IdempotencyKeys :
       LooksUp(j, k) =>
         LET cached == idempotencyCache[k]
         IN  /\ now - cached.timestamp > CACHE_TTL_MS =>
                  /\ requests'[j].via # "cache"
                  /\ DOMAIN idempotencyCache' = DOMAIN idempotencyCache \ {k}
                  /\ \A h \in DOMAIN idempotencyCache' :
                       idempotencyCache'[h] = idempotencyCache[h]
             /\ now - cached.timestamp <= CACHE_TTL_MS =>
                  /\ requests'[j].via = "cache"
                  /\ requests'[j].response = Some(toWebhookResponse(cached.response, k))
                  /\ DOMAIN idempotencyCache' = DOMAIN idempotencyCache]_vars

\* a second request found the entry of the first expired: the entry is gone,
\* and the request, rejected afterwards by validation, wrote none
C32_Witness ==
  /\ requests[1].pc = "done" /\ requests[1].via = "connector"
  /\ requests[2].pc = "done" /\ requests[2].via = "validation"
  /\ Key(1) = Some("k1") /\ Key(2) = Some("k1")
  /\ now - AnsweredAt(1) > CACHE_TTL_MS
  /\ AnsweredAt(2) = now
  /\ Some("k1") \notin DOMAIN idempotencyCache

\* C40: a cache hit does not extend the idempotency window: a lookup that is
\* answered from the cache leaves the entry as it was, so the timestamp of an
\* entry stays the moment its response was written, and no request is answered
\* from the cache more than 5 minutes after that moment.
C40_HitKeepsTimestamp ==
  [][/\ \A j \in ReqIds, k \in IdempotencyKeys :
          (LooksUp(j, k) /\ requests'[j].via = "cache") =>
            /\ idempotencyCache'[k] = idempotencyCache[k]
            /\ now - Get(requests'[j].response).meta.timestamp <= CACHE_TTL_MS
     /\ \A k \in DOMAIN idempotencyCache' :
          idempotencyCache'[k].timestamp = idempotencyCache'[k].response.timestamp]_vars

\* an entry written at 0 served a hit and is past its window at 450000
C40_Witness ==
  /\ requests[1].via = "connector" /\ requests[1].pc = "done"
  /\ requests[2].via = "cache"
  /\ Key(1) = Some("k1") /\ Key(2) = Some("k1")
  /\ Some("k1") \in DOMAIN idempotencyCache
  /\ idempotencyCache[Some("k1")].timestamp = 0
  /\ now - idempotencyCache[Some("k1")].timestamp > CACHE_TTL_MS

\* C38: the idempotency lookup is keyed on the key alone and comes before the
\* validation of the payload: a request whose key has a live entry is answered
\* with the cached response and is not processed, whatever its runtime and its
\* input, valid or not.
C38_LookupBeforeValidation ==
  [][\A j \in ReqIds, k \in IdempotencyKeys :
       (LooksUp(j, k) /\ Live(idempotencyCache[k], now)) =>
         /\ requests'[j].pc = "done"
         /\ requests'[j].via = "cache"
         /\ requests'[j].response = Some(toWebhookResponse(idempotencyCache[k].response, k))]_vars

\* a request with an unknown runtime is answered with the result cached for a
\* valid mail request
C38_Witness ==
  /\ requests[1].pc = "done" /\ requests[1].via = "connector"
  /\ Get(requests[1].payload).runtime = "mail"
  /\ requests[2].pc = "done" /\ requests[2].via = "cache"
  /\ Get(requests[2].payload).runtime = "bogus"
  /\ Key(1) = Key(2)
  /\ requests[2].response = requests[1].response
  /\ Get(requests[2].response).success

\* the cache is written exactly by the end of the processing of a request that
\* carries a key, success or failure; a stored failure is replayed
WrittenWhenProcessed(Carries(_)) ==
  /\ \A i \in ReqIds :
       (Completes(i) /\ Carries(Key(i))) =>
         /\ Key(i) \in DOMAIN idempotencyCache'
         /\ idempotencyCache'[Key(i)].timestamp = now
         /\ requests'[i].response
              = Some(toWebhookResponse(idempotencyCache'[Key(i)].response, Key(i)))
  /\ \A k \in DOMAIN idempotencyCache' :
       (k \notin DOMAIN idempotencyCache \/ idempotencyCache'[k] # idempotencyCache[k]) =>
         \E i \in ReqIds : Completes(i) /\ Carries(Key(i)) /\ Key(i) = k
  /\ \A j \in ReqIds, k \in IdempotencyKeys :
       (/\ LooksUp(j, k) /\ Live(idempotencyCache[k], now)
        /\ ~idempotencyCache[k].response.success) =>
         /\ requests'[j].pc = "done"
         /\ requests'[j].response = Some(toWebhookResponse(idempotencyCache[k].response, k))

\* the request has an idempotency_key field
HasKeyField(key) == IsDefined(key)

\* the request has a non-empty idempotency_key
HasNonEmptyKey(key) == IsDefined(key) /\ Get(key) # ""

\* C39 (as stated): the idempotency cache is written exactly when a request
\* carries a key and its processing ran, success or failure; a stored failure
\* is replayed to a retry within the window; validation rejections are never
\* stored.
C39_WrittenIffKeyedAndProcessed == [][WrittenWhenProcessed(HasKeyField)]_vars

\* C39 (amended): the same, for a request that carries a non-empty key; the
\* response of a processed request whose key is the empty string is not stored.
C39_WrittenIffNonEmptyKeyAndProcessed == [][WrittenWhenProcessed(HasNonEmptyKey)]_vars

\* a processing failure stored under k1 was replayed to a second request, and a
\* validation rejection left the cache empty before
C39_Witness ==
  /\ requests[1].pc = "done" /\ requests[1].via = "connector"
  /\ ~Get(requests[1].response).success
  /\ requests[2].pc = "done" /\ requests[2].via = "cache"
  /\ Key(1) = Some("k1") /\ Key(2) = Some("k1")
  /\ requests[2].response = requests[1].response
  /\ ~idempotencyCache[Some("k1")].response.success

\* C33: eviction never removes a live entry while an expired entry remains in
\* the store: when a put of a new key into a full cache finds an expired
\* entry, every entry live at that moment stays resident.
C33_ExpiredEvictedFirst ==
  [][(/\ InsertsIntoFull
      /\ \E i \in DOMAIN resultCache : cacheNow > resultCache[i].expires_at) =>
       \A i \in DOMAIN resultCache :
         ~(cacheNow > resultCache[i].expires_at) =>
           \E n \in DOMAIN resultCache' : resultCache'[n] = resultCache[i]]_vars

\* the put evicted an expired entry that had been used more recently than a
\* live entry, which stayed
C33_Witness ==
  /\ lastCacheOp.op = "put"
  /\ \E e \in lastCacheOp.removed :
       /\ cacheNow - 1 > e.expires_at
       /\ \E i \in DOMAIN resultCache :
            /\ resultCache[i].key # lastCacheOp.key
            /\ ~(cacheNow - 1 > resultCache[i].expires_at)
            /\ lastUsed[resultCache[i].key] < lastUsed[e.key]

\* the entries a cache holds, their order of use left aside
Entries(cache) == {cache[i] : i \in DOMAIN cache}

\* C34 (as stated): decide() has no side effect beyond a single cache read: it
\* never inserts or overwrites an entry and leaves the contents of the cache
\* unchanged; the write-back is made by the caller only, after the call.
C34_DecideLeavesCacheUnchanged ==
  [][/\ Decides => Entries(resultCache') = Entries(resultCache)
     /\ ~(Entries(resultCache') \subseteq Entries(resultCache)) =>
          /\ lastCacheOp'.op = "put"
          /\ IsDefined(gate) /\ Get(gate).decision.invoke]_vars

\* C34 (amended): decide() reads the cache at most once and never inserts or
\* overwrites an entry; the one entry it can remove is the entry it looked up,
\* when that entry has expired; every other entry stays as it was.  An entry
\* is written by the caller only, after a decision to invoke, under the
\* fingerprint of the input decided.
C34_DecideOnlyReads ==
  [][/\ Decides =>
          /\ Entries(resultCache') \subseteq Entries(resultCache)
          /\ \A e \in Entries(resultCache) \ Entries(resultCache') :
               /\ e.key = Get(gate').input.normalized
               /\ cacheNow > e.expires_at
          /\ \/ UNCHANGED cacheVars
             \/ cacheNow' = cacheNow + 1 /\ lastCacheOp'.op = "get"
     /\ ~(Entries(resultCache') \subseteq Entries(resultCache)) =>
          /\ lastCacheOp'.op = "put"
          /\ IsDefined(gate) /\ Get(gate).decision.invoke
          /\ lastCacheOp'.key = Get(gate).input.normalized
          /\ gate' = Some([Get(gate) EXCEPT !.written = TRUE])]_vars

\* a decision to invoke whose lookup found the entry expired and removed it
C34_Witness ==
  /\ Decided
  /\ Get(gate).decision.invoke
  /\ ~Get(gate).written
  /\ lastCacheOp.op = "get"
  /\ \E e \in lastCacheOp.removed : e.key = Get(gate).input.normalized
  /\ resultCache = <<>>

\* C37: in every verdict, passed is true exactly when the list of violations
\* is empty, which is exactly when the action is DELIVER, and fallback_reason
\* is present exactly when passed is false.
C37_VerdictConsistent ==
  IsDefined(lastCheck) =>
    LET verdict == Get(lastCheck).result
    IN  /\ verdict.passed <=> verdict.violations = <<>>
        /\ verdict.violations = <<>> <=> verdict.action = "DELIVER"
        /\ verdict.fallback_reason # Undefined <=> ~verdict.passed

\* a verdict with one block-severity violation: not passed, FALLBACK, a reason
C37_Witness ==
  /\ IsDefined(lastCheck)
  /\ Len(Get(lastCheck).result.violations) = 1
  /\ Get(lastCheck).result.violations[1].severity = "block"
  /\ ~Get(lastCheck).result.passed
  /\ Get(lastCheck).result.action = "FALLBACK"
  /\ Get(lastCheck).result.fallback_reason # Undefined

(***************************************************************************)
(* The audit storage's claims                                              *)
(***************************************************************************)
\* the step is a call of the storage with a new outcome or a new content
StorageCalled(ops) ==
  /\ lastStorageOp'.op \in ops
  /\ lastStorageOp' # lastStorageOp \/ database' # database \/ storage' # storage

\* C35: every data operation (upsertSession, getSession, writeEvent, the event
\* queries) on a storage that is not initialized, never initialised or closed,
\* fails with the 'not initialized' error and changes nothing; isHealthy() is
\* true only between init() and close().
C35_UninitializedFailsCleanly ==
  [][/\ (/\ StorageCalled({"upsertSession", "getSession", "writeEvent",
                           "getEventsForSession"})
         /\ ~(storage.initialized /\ storage.db)) =>
          /\ lastStorageOp'.outcome = "not initialized"
          /\ database' = database
          /\ storage' = storage
     /\ StorageCalled({"init"}) => storage'.initialized /\ storage'.db
     /\ StorageCalled({"close"}) => ~storage'.initialized /\ ~storage'.db
     /\ StorageCalled({"upsertSession", "getSession", "writeEvent",
                       "getEventsForSession", "isHealthy"}) => storage' = storage
     /\ (StorageCalled({"isHealthy"}) /\ lastStorageOp'.returned = Some(TRUE)) =>
          storage.initialized /\ storage.db]_vars

\* an upsert on a storage closed after use: rejected, the sessions as they were
C35_Witness ==
  /\ ~storage.initialized
  /\ lastStorageOp.op = "upsertSession"
  /\ lastStorageOp.session_id = Some("s2")
  /\ lastStorageOp.outcome = "not initialized"
  /\ {row.session_id : row \in database.sessions} = {"s1"}

\* C36: upsertSession is retry-safe: repeating it for a session id keeps a
\* single session of that id, never changes created_at, and moves
\* last_activity forward only; last_activity is at least created_at; the
\* sessions of other ids are left as they were.
C36_UpsertRetrySafe ==
  [][/\ (StorageCalled({"upsertSession"}) /\ lastStorageOp'.outcome = "ok") =>
          LET id == Get(lastStorageOp'.session_id)
              before == {row \in database.sessions : row.session_id = id}
              after == {row \in database'.sessions : row.session_id = id}
          IN  /\ Cardinality(after) = 1
              /\ lastStorageOp'.returned \in {Some(row) : row \in after}
              /\ \A old \in before, new \in after :
                   /\ new.created_at = old.created_at
                   /\ new.last_activity >= old.last_activity
              /\ {row \in database'.sessions : row.session_id # id}
                   = {row \in database.sessions : row.session_id # id}
     /\ \A row \in database'.sessions : row.last_activity >= row.created_at]_vars

\* a session created at 0 and upserted again at 2
C36_Witness ==
  /\ lastStorageOp.op = "upsertSession"
  /\ lastStorageOp.returned
       = Some([session_id |-> "s1", created_at |-> 0, last_activity |-> 2])
  /\ Cardinality(database.sessions) = 2

====
